---- MODULE Spec2Model ----
(***************************************************************************)
(* A model of the rational-miner Expected Consensus simulator              *)
(* (src/unnamed/part_000, the later version of the simulator, and          *)
(* src/long_sim/main.go, the earlier one).                                 *)
(*                                                                         *)
(* Spec    : one trial (runSim) run alone, round by round.                 *)
(* SpecIds : several trials' calls of getUniqueID on the shared global     *)
(*           uniqueID, interleaved at the level of loads and stores.       *)
(* SpecForks : forksFromTipset applied to tipsets of sibling blocks.        *)
(* SpecTipset : NewTipset applied to any list of blocks.                   *)
(* SpecTests : runTests of the earlier version and its runAndAnalyze        *)
(*           goroutines.                                                   *)
(* SpecMain : main from flag.Parse on, with any -trials and -rounds.        *)
(* SpecCollect : main dispatching the trials and collecting their results  *)
(*           from the buffered channel, with fair scheduling.              *)
(*                                                                         *)
(* Pointers are modelled as indices into heap (the sequence of all Block   *)
(* objects allocated by the trial); 0 is the nil pointer.  A Tipset is     *)
(* immutable but for WasHead and is modelled as a record value.            *)
(***************************************************************************)
EXTENDS Naturals, Integers, Sequences, FiniteSets, TLC

\* ------------------------------------------------------------------ bounds
\* The ticket space; stands for const bigOlNum = 100000, scaled down.
bigOlNum == 2
\* Largest -miners, -rounds and -lbp values explored.
MaxMiners == 2
MaxRounds == 4
MaxLbp == 2
\* Largest number of Block objects a trial allocates.
MaxBlocks == 12
\* SpecIds: number of concurrent trials and getUniqueID calls of each.
MaxTrials == 2
MaxCalls == 2
\* SpecForks: largest tipset and largest Seed given to forksFromTipset.
MaxForkBlocks == 3
MaxForkSeed == 3
\* SpecTests: largest number of (miners, lbp) pairs runTests launches.
MaxPairs == 3

VARIABLES
    totalMiners,   \* runSim parameter
    roundNum,      \* runSim parameter
    lbp,           \* runSim parameter
    uniqueID,      \* var uniqueID int (global)
    heap,          \* every Block object allocated so far; pointer = index
    vrf,           \* the values m.Rand has produced so far, per seed
    miners,        \* miners[m]: the RationalMiner with ID m
    chainTracker,  \* the trial's chainTracker
    blocks,        \* runSim local: this round's input blocks (pointers)
    newBlocks,     \* runSim local
    atsforks,      \* runSim local
    currentHeight, \* runSim local
    round,         \* runSim local: loop counter
    mIdx,          \* runSim local: position in "for _, m := range miners"
    pc,            \* runSim: where the trial is
    c,             \* the result channel (buffered)
    tpc,           \* SpecIds: per trial, position inside getUniqueID
    treg,          \* SpecIds: per trial, the value loaded from uniqueID
    tids,          \* SpecIds: per trial, the ids its calls returned
    trials,        \* main: the -trials flag
    mpc,           \* main: where it is
    cts,           \* main: the results collected
    closed,        \* whether the channel c has been closed
    rpc,           \* runTests (earlier version): where it is
    pairs,         \* runTests: the number of (miners, lbp) pairs
    wgSims,        \* runTests: the counter of var wgSims sync.WaitGroup
    wgCopy,        \* per runAndAnalyze goroutine: the counter of its wg
    gpc            \* per runAndAnalyze goroutine: where it is

trialVars == <<totalMiners, roundNum, lbp, heap, vrf, miners, chainTracker,
               blocks, newBlocks, atsforks, currentHeight, round, mIdx, pc, c>>
idVars == <<tpc, treg, tids>>
collectVars == <<trials, mpc, cts, closed>>
testVars == <<rpc, pairs, wgSims, wgCopy, gpc>>
vars == <<trialVars, uniqueID, idVars, collectVars, testVars>>

\* ------------------------------------------------------------ data model
\* The nil *Tipset.
NilTipset ==
    [Blocks |-> <<>>, Name |-> <<>>, MinTicket |-> 0, WasHead |-> FALSE, Weight |-> 0]

IsNil(ts) == Len(ts.Blocks) = 0

\* A map as a function on its key set.
MapPut(f, k, v) == [x \in (DOMAIN f) \cup {k} |-> IF x = k THEN v ELSE f[x]]

RECURSIVE insertSorted(_, _, _)
\* One pass of insertion sort: b moves left while its Seed is smaller.
insertSorted(h, s, b) ==
    IF Len(s) = 0 \/ ~(h[b].Seed < h[s[Len(s)]].Seed)
        THEN Append(s, b)
        ELSE Append(insertSorted(h, SubSeq(s, 1, Len(s) - 1), b), s[Len(s)])

RECURSIVE sortBlocks(_, _)
\* sort.Slice by ascending Seed; for the short slices of the simulation it is
\* an insertion sort.
sortBlocks(h, blks) ==
    IF Len(blks) = 0 THEN <<>>
    ELSE insertSorted(h, sortBlocks(h, SubSeq(blks, 1, Len(blks) - 1)), blks[Len(blks)])

\* The Name: the Nonces of the blocks, in the order given, joined by "-".
stringifyBlocks(h, blks) == [i \in 1..Len(blks) |-> h[blks[i]].Nonce]

RECURSIVE minSeed(_, _, _)
minSeed(h, blks, acc) ==
    IF Len(blks) = 0 THEN acc
    ELSE minSeed(h, Tail(blks), IF h[Head(blks)].Seed < acc THEN h[Head(blks)].Seed ELSE acc)

\* NewTipset panics on an empty list and checks nothing else.
NewTipsetPanics(blks) == Len(blks) = 0

\* Mutant of NewTipset: null blocks add to the Weight as well.
NewTipsetCountsNull(h, blks) ==
    LET sorted == sortBlocks(h, blks)
    IN  [Blocks |-> sorted,
         Name |-> stringifyBlocks(h, sorted),
         MinTicket |-> minSeed(h, sorted, h[sorted[1]].Seed),
         WasHead |-> FALSE,
         Weight |-> h[sorted[1]].ParentWeight + Len(sorted)]

NewTipset(h, blks) ==
    LET sorted == sortBlocks(h, blks)
    IN  [Blocks |-> sorted,
         Name |-> stringifyBlocks(h, sorted),
         MinTicket |-> minSeed(h, sorted, h[sorted[1]].Seed),
         WasHead |-> FALSE,
         Weight |-> h[sorted[1]].ParentWeight
                      + (IF ~h[sorted[1]].Null THEN Len(sorted) ELSE 0)]

getHeight(h, ts) == h[ts.Blocks[1]].Height

getParents(h, ts) == h[ts.Blocks[1]].Parents

\* Mutant of allTipsets: Height and Parents are not compared.
allTipsetsUngrouped(h, blks) ==
    [i \in 1..Len(blks) |-> NewTipset(h, SubSeq(blks, i, Len(blks)))]

\* Mutant of allTipsets: every block alone.
allTipsetsSingletons(h, blks) == [i \in 1..Len(blks) |-> NewTipset(h, <<blks[i]>>)]

\* allTipsets: for each block, the tipset of that block and the blocks after
\* it in blks that have its Height and its Parents.Name.
allTipsets(h, blks) ==
    [i \in 1..Len(blks) |->
        NewTipset(h, <<blks[i]>> \o
            SelectSeq(SubSeq(blks, i + 1, Len(blks)),
                      LAMBDA b : /\ h[blks[i]].Height = h[b].Height
                                 /\ h[blks[i]].Parents.Name = h[b].Parents.Name))]

\* Mutant of forksFromTipset: the i-th fork is the first i blocks.
forksFromTipsetPrefix(h, ts) ==
    [i \in 1..Len(ts.Blocks) |-> NewTipset(h, SubSeq(ts.Blocks, 1, i))]

forksFromTipset(h, ts) ==
    [i \in 1..Len(ts.Blocks) |-> NewTipset(h, SubSeq(ts.Blocks, i, Len(ts.Blocks)))]

RECURSIVE liveParentsFrom(_, _)
liveParentsFrom(h, parents) ==
    IF h[parents.Blocks[1]].Null
        THEN liveParentsFrom(h, h[parents.Blocks[1]].Parents)
        ELSE parents

liveParents(h, bl) == liveParentsFrom(h, h[bl].Parents)

RECURSIVE walkBack(_, _, _)
walkBack(h, tipset, n) ==
    IF n = 0 THEN tipset ELSE walkBack(h, getParents(h, tipset), n - 1)

\* Mutant of lookbackTipset: the tipset itself, whatever the lookback.
lookbackTipsetTip(h, tipset, l) == tipset

lookbackTipset(h, tipset, l) == walkBack(h, tipset, l - 1)

\* Whether walking n parent links from tipset reaches a nil tipset: the next
\* getParents, or the read of MinTicket in generateBlock, then dereferences nil.
RECURSIVE walkBackPanics(_, _, _)
walkBackPanics(h, tipset, n) ==
    IF IsNil(tipset) THEN TRUE
    ELSE IF n = 0 THEN FALSE
    ELSE walkBackPanics(h, getParents(h, tipset), n - 1)

\* Mutant of isWinningTicket: the largest ticket never wins.
isWinningTicketBelowMax(ticket, power) == ticket * power[2] < (bigOlNum - 1) * power[1]

\* Power is the fraction <<1, totalMiners>>: ticket < bigOlNum * power.
isWinningTicket(ticket, power) == ticket * power[2] < bigOlNum * power[1]

\* generateTicket reseeds m.Rand with minTicket + ID and draws from
\* [0, bigOlNum): a fixed function v of the seed.
generateTicket(v, id, minTicket) == v[minTicket + id]

\* The seeds generateBlock hands to generateTicket for a block on parents.
ticketSeeds(h, id, parents, l) ==
    {lookbackTipset(h, parents, l).MinTicket + id,
     lookbackTipset(h, parents, 1).MinTicket + id}

\* Mutant of generateBlock: the Seed is drawn from the shared counter.
generateBlockSeedFromCounter(h, uid, v, m, parents, l) ==
    [Nonce |-> uid,
     Parents |-> parents,
     Owner |-> m.ID,
     Height |-> getHeight(h, parents) + 1,
     Null |-> ~isWinningTicket(generateTicket(v, m.ID, lookbackTipset(h, parents, l).MinTicket),
                               m.Power),
     ParentWeight |-> (IF h[parents.Blocks[1]].Null
                           THEN liveParents(h, parents.Blocks[1])
                           ELSE parents).Weight,
     Seed |-> uid % bigOlNum,
     InHead |-> FALSE]

\* Mutant of generateBlock: a null block keeps no link to its parents.
generateBlockUnrooted(h, uid, v, m, parents, l) ==
    LET isNull == ~isWinningTicket(generateTicket(v, m.ID, lookbackTipset(h, parents, l).MinTicket),
                                   m.Power)
    IN  [Nonce |-> uid,
         Parents |-> IF isNull THEN NilTipset ELSE parents,
         Owner |-> m.ID,
         Height |-> getHeight(h, parents) + 1,
         Null |-> isNull,
         ParentWeight |-> (IF h[parents.Blocks[1]].Null
                               THEN liveParents(h, parents.Blocks[1])
                               ELSE parents).Weight,
         Seed |-> generateTicket(v, m.ID, lookbackTipset(h, parents, 1).MinTicket),
         InHead |-> FALSE]

generateBlock(h, uid, v, m, parents, l) ==
    LET lotteryTicket == lookbackTipset(h, parents, l).MinTicket
        lastTicket == lookbackTipset(h, parents, 1).MinTicket
        live == IF h[parents.Blocks[1]].Null
                    THEN liveParents(h, parents.Blocks[1])
                    ELSE parents
        t == generateTicket(v, m.ID, lastTicket)
        electionProof == generateTicket(v, m.ID, lotteryTicket)
    IN  [Nonce |-> uid,
         Parents |-> parents,
         Owner |-> m.ID,
         Height |-> getHeight(h, parents) + 1,
         Null |-> ~isWinningTicket(electionProof, m.Power),
         ParentWeight |-> live.Weight,
         Seed |-> t,
         InHead |-> FALSE]

\* PrivateForks is a map from Name to Tipset: a set of tipsets, one per Name.
forkPut(pf, ts) == {t \in pf : t.Name # ts.Name} \cup {ts}

\* Mutant of forkDelete: the entry stays in the map.
forkDeleteKept(pf, name) == pf

forkDelete(pf, name) == {t \in pf : t.Name # name}

RECURSIVE putAll(_, _)
putAll(pf, forks) ==
    IF Len(forks) = 0 THEN pf ELSE putAll(forkPut(pf, Head(forks)), Tail(forks))

RECURSIVE ConsiderAllForks(_, _)
ConsiderAllForks(pf, af) ==
    IF Len(af) = 0 THEN pf ELSE ConsiderAllForks(putAll(pf, Head(af)), Tail(af))

RECURSIVE iterationOrders(_)
\* The orders in which "for k := range m.PrivateForks" may visit the forks.
iterationOrders(pf) ==
    IF pf = {} THEN {<<>>}
    ELSE UNION {{<<ts>> \o o : o \in iterationOrders(pf \ {ts})} : ts \in pf}

\* Mutant of isBetterBlock: the Null flag is not looked at.
isBetterBlockAnyNull(blk, maxWeight) == blk.ParentWeight > maxWeight

\* Mutant of isBetterBlock: a candidate needs a ParentWeight above 1.
isBetterBlockAboveOne(blk, maxWeight) ==
    ~blk.Null /\ blk.ParentWeight > maxWeight /\ blk.ParentWeight > 1

\* Mutant of isBetterBlock: every winning candidate replaces bestBlock.
isBetterBlockLatest(blk, maxWeight) == ~blk.Null

\* Whether a candidate replaces bestBlock.
isBetterBlock(blk, maxWeight) == ~blk.Null /\ blk.ParentWeight > maxWeight

RECURSIVE mineLoop(_, _, _, _, _)
\* The loop of Mine over the forks in order; st is the state it updates.
mineLoop(st, v, m, order, l) ==
    IF Len(order) = 0 THEN st
    ELSE LET blk == generateBlock(st.heap, st.uniqueID, v, m, Head(order), l)
             ptr == Len(st.heap) + 1
             alloc == [st EXCEPT !.heap = Append(st.heap, blk),
                                 !.uniqueID = st.uniqueID + 1]
             next ==
                 IF isBetterBlock(blk, st.maxWeight)
                     THEN [alloc EXCEPT !.bestBlock = ptr,
                                        !.maxWeight = blk.ParentWeight]
                 ELSE IF blk.Null /\ st.bestBlock = 0
                     THEN [alloc EXCEPT !.nullBlocks = Append(st.nullBlocks, ptr),
                                        !.allBlocks = MapPut(st.allBlocks, blk.Nonce, ptr)]
                 ELSE alloc
         IN  mineLoop(next, v, m, Tail(order), l)

RECURSIVE extendNullChain(_, _, _)
extendNullChain(h, pf, nullBlocks) ==
    IF Len(nullBlocks) = 0 THEN pf
    ELSE extendNullChain(h,
            forkPut(forkDelete(pf, h[Head(nullBlocks)].Parents.Name),
                    NewTipset(h, <<Head(nullBlocks)>>)),
            Tail(nullBlocks))

\* Mine: the miner's PrivateForks, heap, uniqueID and allBlocks after the
\* call, and the block it returns (0: nil).
MineResult(h, uid, all, v, m, af, order, l) ==
    LET st == mineLoop([heap |-> h, uniqueID |-> uid, allBlocks |-> all,
                        nullBlocks |-> <<>>, maxWeight |-> 0, bestBlock |-> 0],
                       v, m, order, l)
    IN  [heap |-> st.heap,
         uniqueID |-> st.uniqueID,
         allBlocks |-> st.allBlocks,
         bestBlock |-> st.bestBlock,
         PrivateForks |-> IF st.bestBlock # 0 THEN {}
                          ELSE extendNullChain(st.heap, ConsiderAllForks(m.PrivateForks, af),
                                               st.nullBlocks)]

\* Mutant of isBetterHead: a tie of tickets also replaces the candidate.
isBetterHeadOnTie(ts, cand) ==
    \/ ts.Weight > cand.Weight
    \/ ts.Weight = cand.Weight /\ ts.MinTicket <= cand.MinTicket

\* Whether a tipset replaces the candidate head.
isBetterHead(ts, cand) ==
    \/ ts.Weight > cand.Weight
    \/ ts.Weight = cand.Weight /\ ts.MinTicket < cand.MinTicket

RECURSIVE pickHead(_, _)
\* The loop of setHead: the candidate and whether it is no longer ct.head.
pickHead(cand, tss) ==
    IF Len(tss) = 0 THEN cand
    ELSE pickHead(IF isBetterHead(Head(tss), cand.ts)
                      THEN [ts |-> Head(tss), changed |-> TRUE]
                      ELSE cand,
                  Tail(tss))

\* Mutant of installHead: the blocks of the new head are not flagged.
installHeadUnflagged(ct, h, cand) ==
    IF cand.changed
        THEN [head |-> [cand.ts EXCEPT !.WasHead = TRUE], heap |-> h]
        ELSE [head |-> ct.head, heap |-> h]

\* The end of setHead: a changed candidate becomes the head, WasHead is set
\* and its blocks are flagged InHead.
installHead(ct, h, cand) ==
    IF cand.changed
        THEN [head |-> [cand.ts EXCEPT !.WasHead = TRUE],
              heap |-> [p \in 1..Len(h) |->
                           IF \E i \in 1..Len(cand.ts.Blocks) : cand.ts.Blocks[i] = p
                               THEN [h[p] EXCEPT !.InHead = TRUE]
                               ELSE h[p]]]
        ELSE [head |-> ct.head, heap |-> h]

\* Mutant of setHead: the candidate does not start from the current head, so
\* the best tipset of this round's blocks becomes the head.
setHeadOfRoundOnly(ct, h, blks) ==
    installHead(ct, h, pickHead([ts |-> NilTipset, changed |-> FALSE], allTipsets(h, blks)))

\* Mutant of setHead: the candidate starts from nil and is always installed.
setHeadUnconditional(ct, h, blks) ==
    installHead(ct, h, pickHead([ts |-> NilTipset, changed |-> TRUE], allTipsets(h, blks)))

\* setHead: the head and the heap (the InHead flags) after the call.
setHead(ct, h, blks) ==
    installHead(ct, h, pickHead([ts |-> ct.head, changed |-> FALSE], allTipsets(h, blks)))

RECURSIVE makeGenFrom(_, _, _, _)
\* makeGen's loop: seeds are the values randInt returns, h the blocks made.
makeGenFrom(h, uid, gen, seeds) ==
    IF Len(seeds) = 0 THEN h
    ELSE LET blk == [Nonce |-> uid, Parents |-> gen, Owner |-> -1, Height |-> 0,
                     Null |-> FALSE, ParentWeight |-> 0, Seed |-> Head(seeds),
                     InHead |-> TRUE]
             h2 == Append(h, blk)
         IN  makeGenFrom(h2, uid + 1, NewTipset(h2, <<Len(h2)>>), Tail(seeds))

\* Mutant of makeGen: the genesis blocks are not chained to one another.
makeGenUnchained(l, seeds) ==
    LET h == makeGenFrom(<<>>, 0, NilTipset, seeds)
    IN  [p \in 1..Len(h) |-> [h[p] EXCEPT !.Parents = NilTipset]]

\* makeGen: the heap holding the lbp genesis blocks; the last one is gen.
makeGen(l, seeds) == makeGenFrom(<<>>, 0, NilTipset, seeds)

NewRationalMiner(id, power, tm) ==
    [Power |-> power, PrivateForks |-> {}, ID |-> id, TotalMiners |-> tm]

NewChainTracker ==
    [liveBlocksByHeight |-> <<>>, allBlocks |-> <<>>, maxHeight |-> -1, head |-> NilTipset]

\* ------------------------------------------------------------- one trial
\* runSim up to the round loop: uniqueID = 0, makeGen, the miners, the head.
Init ==
    /\ totalMiners \in 1..MaxMiners
    /\ roundNum \in 0..MaxRounds
    /\ lbp \in 1..MaxLbp
    /\ \E seeds \in [1..lbp -> 0..(bigOlNum * totalMiners - 1)] :
           heap = makeGen(lbp, seeds)
    /\ uniqueID = lbp
    /\ vrf = <<>>
    /\ miners = [m \in 0..(totalMiners - 1) |->
                    NewRationalMiner(m, <<1, totalMiners>>, totalMiners)]
    /\ chainTracker = [NewChainTracker EXCEPT !.head = NewTipset(heap, <<Len(heap)>>)]
    /\ blocks = <<Len(heap)>>
    /\ newBlocks = <<>>
    /\ atsforks = <<>>
    /\ currentHeight = 0
    /\ round = 0
    /\ mIdx = 0
    /\ pc = "loop"
    /\ c = <<>>
    /\ tpc = <<>>
    /\ treg = <<>>
    /\ tids = <<>>
    /\ trials = 1
    /\ mpc = "collect"
    /\ cts = <<>>
    /\ closed = FALSE
    /\ rpc = "none"
    /\ pairs = 0
    /\ wgSims = 0
    /\ wgCopy = <<>>
    /\ gpc = <<>>

RECURSIVE cacheBlocks(_, _, _)
\* for _, blk := range blocks { chainTracker.allBlocks[blk.Nonce] = blk }
cacheBlocks(h, all, blks) ==
    IF Len(blks) = 0 THEN all
    ELSE cacheBlocks(h, MapPut(all, h[Head(blks)].Nonce, Head(blks)), Tail(blks))

\* Mutant of freshNewBlocks: the blocks of the rounds before are kept.
freshNewBlocksKept(nb) == nb

\* var newBlocks = []*Block{}: declared afresh in every round.
freshNewBlocks(nb) == <<>>

\* The first part of a round: setHead, the caches, the height check, and the
\* forks the miners are offered.
RoundStart ==
    /\ pc = "loop"
    /\ round < roundNum
    /\ LET sh == setHead(chainTracker, heap, blocks)
           h == sh.heap
           height == IF Len(blocks) > 0 THEN h[blocks[1]].Height ELSE currentHeight
           ats == allTipsets(h, blocks)
       IN  /\ heap' = h
           /\ currentHeight' = height
           /\ chainTracker' =
                 [chainTracker EXCEPT
                     !.head = sh.head,
                     !.allBlocks = cacheBlocks(h, @, blocks),
                     !.liveBlocksByHeight =
                         IF Len(blocks) > 0 THEN MapPut(@, height, blocks) ELSE @]
           /\ IF \E i \in 1..Len(blocks) : h[blocks[i]].Height # height
                  THEN /\ pc' = "panic"
                       /\ UNCHANGED <<newBlocks, atsforks, mIdx>>
                  ELSE /\ pc' = "mine"
                       /\ newBlocks' = freshNewBlocks(newBlocks)
                       /\ atsforks' = [i \in 1..Len(ats) |-> forksFromTipset(h, ats[i])]
                       /\ mIdx' = 0
    /\ UNCHANGED <<totalMiners, roundNum, lbp, uniqueID, vrf, miners, blocks, round, c>>
    /\ UNCHANGED <<idVars, collectVars>>
    /\ UNCHANGED testVars

\* The seeds miner m hands to its generator in this call of Mine.
mineSeeds(m) ==
    UNION {ticketSeeds(heap, m, ts, lbp) :
             ts \in ConsiderAllForks(miners[m].PrivateForks, atsforks)}

\* One miner's turn: blk := m.Mine(chainTracker, atsforks, lbp), appended to
\* newBlocks when not nil.  The map is visited in any order, and the
\* generator gives any value for a seed it has not been given before.
Mine(m) ==
    /\ pc = "mine"
    /\ mIdx = m
    /\ m < totalMiners
    /\ Len(heap) + Cardinality(ConsiderAllForks(miners[m].PrivateForks, atsforks)) <= MaxBlocks
    /\ \E f \in [mineSeeds(m) \ DOMAIN vrf -> 0..(bigOlNum - 1)] :
       \E order \in iterationOrders(ConsiderAllForks(miners[m].PrivateForks, atsforks)) :
           LET v == [k \in (DOMAIN vrf) \cup (DOMAIN f) |->
                        IF k \in DOMAIN vrf THEN vrf[k] ELSE f[k]]
               r == MineResult(heap, uniqueID, chainTracker.allBlocks, v,
                               miners[m], atsforks, order, lbp)
           IN  /\ vrf' = v
               /\ heap' = r.heap
               /\ uniqueID' = r.uniqueID
               /\ chainTracker' = [chainTracker EXCEPT !.allBlocks = r.allBlocks]
               /\ miners' = [miners EXCEPT ![m].PrivateForks = r.PrivateForks]
               /\ newBlocks' = IF r.bestBlock # 0 THEN Append(newBlocks, r.bestBlock)
                               ELSE newBlocks
    /\ mIdx' = mIdx + 1
    /\ UNCHANGED <<totalMiners, roundNum, lbp, blocks, atsforks, currentHeight, round, pc, c>>
    /\ UNCHANGED <<idVars, collectVars>>
    /\ UNCHANGED testVars

\* Mutant of nextBlocks: the input is kept when no block was collected, as
\* the earlier version of the simulator does.
nextBlocksIfAny(blks, nb) == IF Len(nb) > 0 THEN nb ELSE blks

\* blocks = newBlocks
nextBlocks(blks, nb) == nb

\* The end of a round: blocks = newBlocks; round++.
RoundEnd ==
    /\ pc = "mine"
    /\ mIdx = totalMiners
    /\ blocks' = nextBlocks(blocks, newBlocks)
    /\ round' = round + 1
    /\ pc' = "loop"
    /\ UNCHANGED <<totalMiners, roundNum, lbp, uniqueID, heap, vrf, miners, chainTracker,
                   newBlocks, atsforks, currentHeight, mIdx, c>>
    /\ UNCHANGED <<idVars, collectVars>>
    /\ UNCHANGED testVars

\* After the loop: maxHeight = roundNum - 1; c <- chainTracker.
Finish ==
    /\ pc = "loop"
    /\ round >= roundNum
    /\ chainTracker' = [chainTracker EXCEPT !.maxHeight = roundNum - 1]
    /\ c' = Append(c, chainTracker')
    /\ pc' = "done"
    /\ UNCHANGED <<totalMiners, roundNum, lbp, uniqueID, heap, vrf, miners,
                   blocks, newBlocks, atsforks, currentHeight, round, mIdx>>
    /\ UNCHANGED <<idVars, collectVars>>
    /\ UNCHANGED testVars

Next ==
    \/ RoundStart
    \/ \E m \in 0..(MaxMiners - 1) : Mine(m)
    \/ RoundEnd
    \/ Finish

Spec == Init /\ [][Next]_vars

\* ------------------------------------------- concurrent trials and uniqueID
Trials == 1..MaxTrials

\* main has started MaxTrials goroutines runSim; none has run yet.
InitIds ==
    /\ totalMiners = 1
    /\ roundNum = 0
    /\ lbp = 1
    /\ heap = <<>>
    /\ vrf = <<>>
    /\ miners = <<>>
    /\ chainTracker = NewChainTracker
    /\ blocks = <<>>
    /\ newBlocks = <<>>
    /\ atsforks = <<>>
    /\ currentHeight = 0
    /\ round = 0
    /\ mIdx = 0
    /\ pc = "trials"
    /\ c = <<>>
    /\ uniqueID = 0
    /\ tpc = [t \in Trials |-> "start"]
    /\ treg = [t \in Trials |-> 0]
    /\ tids = [t \in Trials |-> <<>>]
    /\ trials = MaxTrials
    /\ mpc = "collect"
    /\ cts = <<>>
    /\ closed = FALSE
    /\ rpc = "none"
    /\ pairs = 0
    /\ wgSims = 0
    /\ wgCopy = <<>>
    /\ gpc = <<>>

\* runSim: uniqueID = 0
ResetID(t) ==
    /\ tpc[t] = "start"
    /\ uniqueID' = 0
    /\ tpc' = [tpc EXCEPT ![t] = "load"]
    /\ UNCHANGED <<trialVars, treg, tids>>
    /\ UNCHANGED collectVars
    /\ UNCHANGED testVars

\* getUniqueID, uniqueID += 1: the load
LoadID(t) ==
    /\ tpc[t] = "load"
    /\ Len(tids[t]) < MaxCalls
    /\ treg' = [treg EXCEPT ![t] = uniqueID]
    /\ tpc' = [tpc EXCEPT ![t] = "store"]
    /\ UNCHANGED <<trialVars, uniqueID, tids>>
    /\ UNCHANGED collectVars
    /\ UNCHANGED testVars

\* getUniqueID, uniqueID += 1: the store
StoreID(t) ==
    /\ tpc[t] = "store"
    /\ uniqueID' = treg[t] + 1
    /\ tpc' = [tpc EXCEPT ![t] = "return"]
    /\ UNCHANGED <<trialVars, treg, tids>>
    /\ UNCHANGED collectVars
    /\ UNCHANGED testVars

\* getUniqueID: return uniqueID - 1, the Nonce of the trial's next block
ReturnID(t) ==
    /\ tpc[t] = "return"
    /\ tids' = [tids EXCEPT ![t] = Append(@, uniqueID - 1)]
    /\ tpc' = [tpc EXCEPT ![t] = "load"]
    /\ UNCHANGED <<trialVars, uniqueID, treg>>
    /\ UNCHANGED collectVars
    /\ UNCHANGED testVars

NextIds ==
    \E t \in Trials : ResetID(t) \/ LoadID(t) \/ StoreID(t) \/ ReturnID(t)

SpecIds == InitIds /\ [][NextIds]_vars

\* ------------------------------------------------- forksFromTipset alone
\* A genesis block and n blocks mined on it by different miners, with any
\* Seeds, collected in any order of Seeds.
InitForks ==
    /\ totalMiners = MaxForkBlocks
    /\ roundNum = 1
    /\ lbp = 1
    /\ \E n \in 1..MaxForkBlocks : \E seeds \in [1..n -> 0..MaxForkSeed] :
          LET gh == makeGen(1, <<0>>)
              gen == NewTipset(gh, <<1>>)
          IN  /\ heap = gh \o [i \in 1..n |->
                                [Nonce |-> i, Parents |-> gen, Owner |-> i - 1,
                                 Height |-> 1, Null |-> FALSE,
                                 ParentWeight |-> gen.Weight, Seed |-> seeds[i],
                                 InHead |-> FALSE]]
              /\ blocks = [i \in 1..n |-> i + 1]
    /\ vrf = <<>>
    /\ miners = <<>>
    /\ chainTracker = NewChainTracker
    /\ newBlocks = <<>>
    /\ atsforks = <<>>
    /\ currentHeight = 1
    /\ round = 1
    /\ mIdx = 0
    /\ pc = "forks"
    /\ c = <<>>
    /\ uniqueID = Len(heap)
    /\ tpc = <<>>
    /\ treg = <<>>
    /\ tids = <<>>
    /\ trials = 1
    /\ mpc = "collect"
    /\ cts = <<>>
    /\ closed = FALSE
    /\ rpc = "none"
    /\ pairs = 0
    /\ wgSims = 0
    /\ wgCopy = <<>>
    /\ gpc = <<>>

\* forks := forksFromTipset(NewTipset(blocks))
ApplyForks ==
    /\ pc = "forks"
    /\ atsforks' = <<forksFromTipset(heap, NewTipset(heap, blocks))>>
    /\ pc' = "forked"
    /\ UNCHANGED <<totalMiners, roundNum, lbp, heap, vrf, miners, chainTracker,
                   blocks, newBlocks, currentHeight, round, mIdx, c>>
    /\ UNCHANGED <<uniqueID, idVars, collectVars>>
    /\ UNCHANGED testVars

NextForks == ApplyForks

SpecForks == InitForks /\ [][NextForks]_vars

\* ------------------------------------------------------- NewTipset alone
\* Two chained genesis blocks and a list of up to MaxForkBlocks blocks, each
\* of Height 1 or 2, on either genesis tipset, with any Seed below bigOlNum.
InitTipset ==
    /\ totalMiners = MaxForkBlocks
    /\ roundNum = 1
    /\ lbp = 2
    /\ \E n \in 0..MaxForkBlocks :
       \E seeds \in [1..n -> 0..(bigOlNum - 1)] :
       \E heights \in [1..n -> 1..2] :
       \E parents \in [1..n -> 1..2] :
          LET gh == makeGen(2, <<0, 0>>)
          IN  /\ heap = gh \o [i \in 1..n |->
                                [Nonce |-> i + 1,
                                 Parents |-> NewTipset(gh, <<parents[i]>>),
                                 Owner |-> i - 1,
                                 Height |-> heights[i], Null |-> FALSE,
                                 ParentWeight |-> NewTipset(gh, <<parents[i]>>).Weight,
                                 Seed |-> seeds[i],
                                 InHead |-> FALSE]]
              /\ blocks = [i \in 1..n |-> i + 2]
    /\ vrf = <<>>
    /\ miners = <<>>
    /\ chainTracker = NewChainTracker
    /\ newBlocks = <<>>
    /\ atsforks = <<>>
    /\ currentHeight = 1
    /\ round = 1
    /\ mIdx = 0
    /\ pc = "tipset"
    /\ c = <<>>
    /\ uniqueID = Len(heap)
    /\ tpc = <<>>
    /\ treg = <<>>
    /\ tids = <<>>
    /\ trials = 1
    /\ mpc = "collect"
    /\ cts = <<>>
    /\ closed = FALSE
    /\ rpc = "none"
    /\ pairs = 0
    /\ wgSims = 0
    /\ wgCopy = <<>>
    /\ gpc = <<>>

\* ts := NewTipset(blocks): the panic on an empty list, else the tipset.
ApplyNewTipset ==
    /\ pc = "tipset"
    /\ IF NewTipsetPanics(blocks)
           THEN /\ pc' = "panic"
                /\ atsforks' = atsforks
           ELSE /\ pc' = "built"
                /\ atsforks' = <<<<NewTipset(heap, blocks)>>>>
    /\ UNCHANGED <<totalMiners, roundNum, lbp, heap, vrf, miners, chainTracker,
                   blocks, newBlocks, currentHeight, round, mIdx, c>>
    /\ UNCHANGED <<uniqueID, idVars, collectVars>>
    /\ UNCHANGED testVars

NextTipset == ApplyNewTipset

SpecTipset == InitTipset /\ [][NextTipset]_vars

\* ------------------------------------------- main: dispatch and collection
\* main after flag.Parse and c := make(chan *chainTracker, trials).
InitCollect ==
    /\ totalMiners = 1
    /\ roundNum = 0
    /\ lbp = 1
    /\ heap = <<>>
    /\ vrf = <<>>
    /\ miners = <<>>
    /\ chainTracker = NewChainTracker
    /\ blocks = <<>>
    /\ newBlocks = <<>>
    /\ atsforks = <<>>
    /\ currentHeight = 0
    /\ round = 0
    /\ mIdx = 0
    /\ pc = "trials"
    /\ c = <<>>
    /\ uniqueID = 0
    /\ tpc = [t \in Trials |-> "idle"]
    /\ treg = [t \in Trials |-> 0]
    /\ tids = [t \in Trials |-> <<>>]
    /\ trials \in 1..MaxTrials
    /\ mpc = "dispatch"
    /\ cts = <<>>
    /\ closed = FALSE
    /\ rpc = "none"
    /\ pairs = 0
    /\ wgSims = 0
    /\ wgCopy = <<>>
    /\ gpc = <<>>

\* The trials main has started so far.
started == {t \in Trials : tpc[t] # "idle"}

\* for n := 0; n < trials; n++ { go runSim(totalMiners, roundNum, lbp, c) }
Dispatch ==
    /\ mpc = "dispatch"
    /\ IF Cardinality(started) < trials
           THEN /\ tpc' = [tpc EXCEPT ![Cardinality(started) + 1] = "start"]
                /\ mpc' = mpc
           ELSE /\ mpc' = "collect"
                /\ tpc' = tpc
    /\ UNCHANGED <<trialVars, uniqueID, treg, tids, trials, cts, closed>>
    /\ UNCHANGED testVars

\* Mutant of chanCap: the channel holds one result.
chanCapOne(tr) == 1

\* c := make(chan *chainTracker, trials): the capacity of the channel.
chanCap(tr) == tr

\* The end of runSim, c <- chainTracker: the send waits while the buffer is
\* full and panics on a closed channel.  The result stands for the trial.
SendResult(t) ==
    /\ tpc[t] = "load"
    /\ closed \/ Len(c) < chanCap(trials)
    /\ IF closed
           THEN /\ tpc' = [tpc EXCEPT ![t] = "panic"]
                /\ c' = c
           ELSE /\ tpc' = [tpc EXCEPT ![t] = "done"]
                /\ c' = Append(c, t)
    /\ UNCHANGED <<totalMiners, roundNum, lbp, heap, vrf, miners, chainTracker,
                   blocks, newBlocks, atsforks, currentHeight, round, mIdx, pc>>
    /\ UNCHANGED <<uniqueID, treg, tids, collectVars>>
    /\ UNCHANGED testVars

\* Mutant of shouldClose: the channel is closed after the first result.
shouldCloseOnFirst(n, tr) == n >= 1

\* if len(cts) == trials { close(c) }
shouldClose(n, tr) == n = tr

\* One iteration of "for result := range c": cts = append(cts, result) and
\* the close of the channel once every result is in.
Receive ==
    /\ mpc = "collect"
    /\ Len(c) > 0
    /\ cts' = Append(cts, Head(c))
    /\ c' = Tail(c)
    /\ closed' = (closed \/ shouldClose(Len(cts'), trials))
    /\ UNCHANGED <<totalMiners, roundNum, lbp, heap, vrf, miners, chainTracker,
                   blocks, newBlocks, atsforks, currentHeight, round, mIdx, pc>>
    /\ UNCHANGED <<uniqueID, idVars, trials, mpc>>
    /\ UNCHANGED testVars

\* "for result := range c" ends when the channel is closed and drained.
CollectDone ==
    /\ mpc = "collect"
    /\ closed
    /\ Len(c) = 0
    /\ mpc' = "exit"
    /\ UNCHANGED <<trialVars, uniqueID, idVars, trials, cts, closed>>
    /\ UNCHANGED testVars

\* A step of trial t.
TrialStep(t) == ResetID(t) \/ LoadID(t) \/ StoreID(t) \/ ReturnID(t) \/ SendResult(t)

\* A step of main.
MainStep == Dispatch \/ Receive \/ CollectDone

NextCollect ==
    \/ Dispatch
    \/ Receive
    \/ CollectDone
    \/ \E t \in Trials : ResetID(t)
    \/ \E t \in Trials : LoadID(t)
    \/ \E t \in Trials : StoreID(t)
    \/ \E t \in Trials : ReturnID(t)
    \/ \E t \in Trials : SendResult(t)

\* The goroutines of main and of the trials are scheduled fairly.
SpecCollect ==
    /\ InitCollect
    /\ [][NextCollect]_vars
    /\ WF_vars(MainStep)
    /\ \A t \in Trials : WF_vars(TrialStep(t))

\* ------------------------------------------------ main: the configuration
\* main after flag.Parse: -trials and -rounds may be zero or negative.
InitMain ==
    /\ totalMiners = 1
    /\ roundNum \in -1..1
    /\ lbp = 1
    /\ heap = <<>>
    /\ vrf = <<>>
    /\ miners = <<>>
    /\ chainTracker = NewChainTracker
    /\ blocks = <<>>
    /\ newBlocks = <<>>
    /\ atsforks = <<>>
    /\ currentHeight = 0
    /\ round = 0
    /\ mIdx = 0
    /\ pc = "trials"
    /\ c = <<>>
    /\ uniqueID = 0
    /\ tpc = [t \in Trials |-> "idle"]
    /\ treg = [t \in Trials |-> 0]
    /\ tids = [t \in Trials |-> <<>>]
    /\ trials \in -1..MaxTrials
    /\ mpc = "check"
    /\ cts = <<>>
    /\ closed = FALSE
    /\ rpc = "none"
    /\ pairs = 0
    /\ wgSims = 0
    /\ wgCopy = <<>>
    /\ gpc = <<>>

\* if trials <= 0 { panic(...) }; nothing else is checked before
\* c := make(chan *chainTracker, trials) and the dispatch loop.
CheckConfig ==
    /\ mpc = "check"
    /\ mpc' = IF trials <= 0 THEN "panic" ELSE "dispatch"
    /\ UNCHANGED <<trialVars, uniqueID, idVars, trials, cts, closed>>
    /\ UNCHANGED testVars

NextMain ==
    \/ CheckConfig
    \/ NextCollect

SpecMain == InitMain /\ [][NextMain]_vars

\* ------------------------------------- runTests (the earlier version)
Pairs == 1..MaxPairs

\* runTests before its loops: results := make(map...), var wgSims.
InitTests ==
    /\ totalMiners = 1
    /\ roundNum = 0
    /\ lbp = 1
    /\ heap = <<>>
    /\ vrf = <<>>
    /\ miners = <<>>
    /\ chainTracker = NewChainTracker
    /\ blocks = <<>>
    /\ newBlocks = <<>>
    /\ atsforks = <<>>
    /\ currentHeight = 0
    /\ round = 0
    /\ mIdx = 0
    /\ pc = "tests"
    /\ c = <<>>
    /\ uniqueID = 0
    /\ tpc = <<>>
    /\ treg = <<>>
    /\ tids = <<>>
    /\ trials = 1
    /\ mpc = "tests"
    /\ cts = <<>>
    /\ closed = FALSE
    /\ rpc = "launch"
    /\ pairs \in 1..MaxPairs
    /\ wgSims = 0
    /\ wgCopy = [g \in Pairs |-> 0]
    /\ gpc = [g \in Pairs |-> "idle"]

\* The goroutines runTests has launched so far.
launched == {g \in Pairs : gpc[g] # "idle"}

\* A step of runTests.  In its loops: wgSims.Add(1) and
\* go runAndAnalyze(..., wgSims), whose last parameter is a sync.WaitGroup
\* passed by value, so the goroutine gets a copy of wgSims as it is then.
\* After the loops: wgSims.Wait(), which returns when the counter of wgSims
\* is zero, and the summary.
RunTests ==
    /\ rpc \in {"launch", "wait"}
    /\ IF rpc = "launch"
           THEN IF Cardinality(launched) < pairs
                    THEN /\ wgSims' = wgSims + 1
                         /\ wgCopy' = [wgCopy EXCEPT ![Cardinality(launched) + 1] = wgSims + 1]
                         /\ gpc' = [gpc EXCEPT ![Cardinality(launched) + 1] = "run"]
                         /\ rpc' = rpc
                    ELSE /\ rpc' = "wait"
                         /\ UNCHANGED <<wgSims, wgCopy, gpc>>
           ELSE /\ wgSims = 0
                /\ rpc' = "returned"
                /\ UNCHANGED <<wgSims, wgCopy, gpc>>
    /\ UNCHANGED <<trialVars, uniqueID, idVars, collectVars, pairs>>

\* runAndAnalyze: cts := run(trials, lbp, roundNum, totalMiners)
RunSims(g) ==
    /\ rpc # "fatal"
    /\ gpc[g] = "run"
    /\ gpc' = [gpc EXCEPT ![g] = "store"]
    /\ UNCHANGED <<trialVars, uniqueID, idVars, collectVars, rpc, pairs, wgSims, wgCopy>>

\* runAndAnalyze: results[totalMiners][lbp] = analyzeSim(cts), the write begins
StoreBegin(g) ==
    /\ rpc # "fatal"
    /\ gpc[g] = "store"
    /\ gpc' = [gpc EXCEPT ![g] = "storing"]
    /\ UNCHANGED <<trialVars, uniqueID, idVars, collectVars, rpc, pairs, wgSims, wgCopy>>

\* runAndAnalyze: results[totalMiners][lbp] = analyzeSim(cts), the write ends
StoreEnd(g) ==
    /\ rpc # "fatal"
    /\ gpc[g] = "storing"
    /\ gpc' = [gpc EXCEPT ![g] = "defer"]
    /\ UNCHANGED <<trialVars, uniqueID, idVars, collectVars, rpc, pairs, wgSims, wgCopy>>

\* Two goroutines write the shared map results at once: the runtime may
\* stop the process (fatal error: concurrent map writes), or may not.
MapFault ==
    /\ rpc # "fatal"
    /\ \E g1, g2 \in Pairs : g1 # g2 /\ gpc[g1] = "storing" /\ gpc[g2] = "storing"
    /\ rpc' = "fatal"
    /\ UNCHANGED <<trialVars, uniqueID, idVars, collectVars, pairs, wgSims, wgCopy, gpc>>

\* runAndAnalyze: defer wg.Done(), on the goroutine's own copy wg
Done(g) ==
    /\ rpc # "fatal"
    /\ gpc[g] = "defer"
    /\ wgCopy' = [wgCopy EXCEPT ![g] = wgCopy[g] - 1]
    /\ gpc' = [gpc EXCEPT ![g] = "done"]
    /\ UNCHANGED <<trialVars, uniqueID, idVars, collectVars, rpc, pairs, wgSims>>

NextTests ==
    \/ RunTests
    \/ MapFault
    \/ \E g \in Pairs : RunSims(g)
    \/ \E g \in Pairs : StoreBegin(g)
    \/ \E g \in Pairs : StoreEnd(g)
    \/ \E g \in Pairs : Done(g)

SpecTests == InitTests /\ [][NextTests]_vars

\* ------------------------------------------------------------- the claims
\* The tipsets of this round's input blocks, as runSim and setHead form them.
roundTipsets == allTipsets(heap, blocks)

\* The blocks published so far with the Height and Parents.Name of block p.
groupOf(p) ==
    {q \in 1..Len(heap) :
        /\ heap[q].Height = heap[p].Height
        /\ heap[q].Parents.Name = heap[p].Parents.Name
        /\ heap[q].Height \in DOMAIN chainTracker.liveBlocksByHeight
        /\ \E i \in 1..Len(chainTracker.liveBlocksByHeight[heap[q].Height]) :
               chainTracker.liveBlocksByHeight[heap[q].Height][i] = q}

Members(ts) == {ts.Blocks[i] : i \in 1..Len(ts.Blocks)}

\* The forks miner m holds: its PrivateForks, and for the miner whose call of
\* Mine is next, PrivateForks as ConsiderAllForks leaves it in that call.
heldForks(m) ==
    IF pc = "mine" /\ mIdx = m
        THEN ConsiderAllForks(miners[m].PrivateForks, atsforks)
        ELSE miners[m].PrivateForks

\* C1: the blocks supplied as input to round r all have Height r, every
\* entry of liveBlocksByHeight holds blocks of its height only, and the fatal
\* height check of runSim is never reached.
C1_RoundHeights ==
    /\ pc # "panic"
    /\ \A i \in 1..Len(blocks) : heap[blocks[i]].Height = round
    /\ \A hgt \in DOMAIN chainTracker.liveBlocksByHeight :
         \A i \in 1..Len(chainTracker.liveBlocksByHeight[hgt]) :
            heap[chainTracker.liveBlocksByHeight[hgt][i]].Height = hgt

\* C1 witness: the height check of a round after the second has passed on two
\* input blocks while a miner still extends a private null fork.
C1_Witness ==
    /\ pc = "mine"
    /\ round >= 2
    /\ Len(blocks) >= 2
    /\ \E m \in DOMAIN miners : \E ts \in miners[m].PrivateForks : heap[ts.Blocks[1]].Null

\* C2: in the blocks collected in a round, and so in the next round's input,
\* no two blocks have the same Owner.
C2_OneBlockPerMiner ==
    /\ \A i, j \in 1..Len(newBlocks) :
          i # j => heap[newBlocks[i]].Owner # heap[newBlocks[j]].Owner
    /\ \A i, j \in 1..Len(blocks) :
          i # j => heap[blocks[i]].Owner # heap[blocks[j]].Owner

\* C2 witness: a miner won the lottery on two forks in the same round and one
\* of the two candidates was collected.
C2_Witness ==
    /\ pc = "mine"
    /\ \E i \in 1..Len(newBlocks) : \E q \in 1..Len(heap) :
          /\ q # newBlocks[i]
          /\ ~heap[q].Null
          /\ heap[q].Owner = heap[newBlocks[i]].Owner
          /\ heap[q].Height = heap[newBlocks[i]].Height

\* C3: the Weight of chainTracker.head never decreases.
C3_HeadWeightMonotone ==
    [][chainTracker'.head.Weight >= chainTracker.head.Weight]_vars

\* C3 witness: setHead has been given tipsets that are all lighter than the
\* head chosen in a round before, and has kept that head.
C3_Witness ==
    /\ pc = "mine"
    /\ chainTracker.head.WasHead
    /\ Len(blocks) >= 1
    /\ \A i \in 1..Len(blocks) : roundTipsets[i].Weight < chainTracker.head.Weight

\* C4: whenever the head changes, the new head has strictly greater Weight, or
\* equal Weight and strictly smaller MinTicket.
C4_HeadStrictlyBetter ==
    [][chainTracker'.head # chainTracker.head =>
          \/ chainTracker'.head.Weight > chainTracker.head.Weight
          \/ /\ chainTracker'.head.Weight = chainTracker.head.Weight
             /\ chainTracker'.head.MinTicket < chainTracker.head.MinTicket]_vars

\* C4 witness: setHead has been given a tipset other than the head, of the
\* head's Weight and with a MinTicket not smaller than the head's.
C4_Witness ==
    /\ pc = "mine"
    /\ \E i \in 1..Len(blocks) :
          /\ roundTipsets[i].Name # chainTracker.head.Name
          /\ roundTipsets[i].Weight = chainTracker.head.Weight
          /\ roundTipsets[i].MinTicket >= chainTracker.head.MinTicket

\* C5: no miner holds a fork of published blocks that keeps a block with a
\* smaller ticket while a published block of the same group (same height,
\* same parents) with a larger ticket is left out of it.
C5_ForksAreSuffixes ==
    \A m \in DOMAIN miners : \A ts \in heldForks(m) :
        ~heap[ts.Blocks[1]].Null =>
            \A p \in Members(ts) : \A q \in groupOf(p) \ Members(ts) :
                ~(heap[p].Seed < heap[q].Seed)

\* C6: allTipsets returns exactly one tipset per (height, parents) group of
\* its input, and that tipset holds all the input blocks of the group.
C6_AllTipsetsPartitions ==
    LET in == {blocks[i] : i \in 1..Len(blocks)}
        same(p, q) == /\ heap[p].Height = heap[q].Height
                      /\ heap[p].Parents.Name = heap[q].Parents.Name
    IN  /\ \A p \in in :
              Cardinality({i \in 1..Len(roundTipsets) : p \in Members(roundTipsets[i])}) = 1
        /\ \A i \in 1..Len(roundTipsets) : \A p \in Members(roundTipsets[i]) :
              Members(roundTipsets[i]) = {q \in in : same(p, q)}

\* C7: no null block is among a round's input blocks, the blocks collected in
\* a round or liveBlocksByHeight, and a null block in a tipset of a miner's
\* PrivateForks is owned by that miner.
C7_NullBlocksPrivate ==
    /\ \A i \in 1..Len(blocks) : ~heap[blocks[i]].Null
    /\ \A i \in 1..Len(newBlocks) : ~heap[newBlocks[i]].Null
    /\ \A hgt \in DOMAIN chainTracker.liveBlocksByHeight :
         \A i \in 1..Len(chainTracker.liveBlocksByHeight[hgt]) :
            ~heap[chainTracker.liveBlocksByHeight[hgt][i]].Null
    /\ \A m \in DOMAIN miners : \A ts \in heldForks(m) :
         \A p \in Members(ts) : heap[p].Null => heap[p].Owner = m

\* C7 witness: a miner holds a private null fork in a round whose input is a
\* block another miner published.
C7_Witness ==
    /\ pc = "mine"
    /\ mIdx = totalMiners
    /\ Len(blocks) >= 1
    /\ \E m \in DOMAIN miners : \E ts \in miners[m].PrivateForks :
          /\ heap[ts.Blocks[1]].Null
          /\ \E i \in 1..Len(blocks) : heap[blocks[i]].Owner \notin {m, -1}


\* C8: every trial assigns its blocks the ids it assigns when it runs alone:
\* 0, 1, 2, ... in the order of its calls of getUniqueID.
C8_IdsAsAlone ==
    \A t \in Trials : \A i \in 1..Len(tids[t]) : tids[t][i] = i - 1

\* C9: within one trial the ids are strictly increasing, so no two blocks of
\* the trial have the same Nonce.
C9_IdsIncreasing ==
    \A t \in Trials : \A i, j \in 1..Len(tids[t]) : i < j => tids[t][i] < tids[t][j]

\* What Mine returns, without the Nonce: the block's fields, or none.
returned(r) ==
    IF r.bestBlock = 0 THEN <<>>
    ELSE <<[r.heap[r.bestBlock] EXCEPT !.Nonce = 0]>>

\* C10: the block the next miner publishes does not depend on the order in
\* which Mine visits PrivateForks, given the values of the generator.
C10_MineDeterministic ==
    (pc = "mine" /\ mIdx < totalMiners) =>
        \A f \in [mineSeeds(mIdx) \ DOMAIN vrf -> 0..(bigOlNum - 1)] :
            LET v == [k \in (DOMAIN vrf) \cup (DOMAIN f) |->
                         IF k \in DOMAIN vrf THEN vrf[k] ELSE f[k]]
                forks == ConsiderAllForks(miners[mIdx].PrivateForks, atsforks)
            IN  Cardinality({returned(MineResult(heap, uniqueID, chainTracker.allBlocks, v,
                                                 miners[mIdx], atsforks, o, lbp)) :
                                o \in iterationOrders(forks)}) = 1

\* C11: lookbackTipset never walks onto a nil tipset: from every tipset the
\* miners are offered this round, from every fork a miner holds, and from the
\* parents of every block mined so far, lbp - 1 parent links lead to a tipset.
C11_LookbackNeverUnderflows ==
    /\ \A i \in 1..Len(roundTipsets) :
          LET forks == forksFromTipset(heap, roundTipsets[i])
          IN  \A j \in 1..Len(forks) : ~walkBackPanics(heap, forks[j], lbp - 1)
    /\ \A m \in DOMAIN miners : \A ts \in heldForks(m) :
          ~walkBackPanics(heap, ts, lbp - 1)
    /\ \A p \in 1..Len(heap) :
          heap[p].Height > 0 => ~walkBackPanics(heap, heap[p].Parents, lbp - 1)

\* C11 witness: with the largest lookback, a block has been mined on the
\* genesis tipset in round 0 and a miner holds a private null fork in a
\* later round.
C11_Witness ==
    /\ lbp = MaxLbp
    /\ pc = "mine"
    /\ round >= 1
    /\ \E p \in 1..Len(heap) : heap[p].Height = 1
    /\ \E m \in DOMAIN miners : \E ts \in heldForks(m) : heap[ts.Blocks[1]].Null

\* The tipsets of the blocks published in any round: the inputs of the rounds
\* run (liveBlocksByHeight) and the blocks collected in the last round.
publishedTipsets ==
    UNION ({{allTipsets(heap, blocks)[i] : i \in 1..Len(blocks)}} \cup
           {{allTipsets(heap, chainTracker.liveBlocksByHeight[hgt])[i] :
                 i \in 1..Len(chainTracker.liveBlocksByHeight[hgt])} :
              hgt \in DOMAIN chainTracker.liveBlocksByHeight})

\* C12: when the trial has finished, the head is at least as good as every
\* tipset of the blocks published in any round, the last round included:
\* it has greater Weight, or equal Weight and a MinTicket not larger.
C12_HeadCoversEveryRound ==
    pc = "done" =>
        \A ts \in publishedTipsets :
            \/ chainTracker.head.Weight > ts.Weight
            \/ /\ chainTracker.head.Weight = ts.Weight
               /\ chainTracker.head.MinTicket <= ts.MinTicket

\* C13: when the trial has finished, allBlocks holds every block the trial
\* created, under its Nonce.
C13_AllBlocksComplete ==
    pc = "done" =>
        \A p \in 1..Len(heap) :
            /\ heap[p].Nonce \in DOMAIN chainTracker.allBlocks
            /\ chainTracker.allBlocks[heap[p].Nonce] = p

\* C14: main eventually leaves the collecting loop, and then cts holds the
\* result of each dispatched trial exactly once.
C14_CollectsEveryResult ==
    <>(/\ mpc = "exit"
       /\ Len(cts) = trials
       /\ {cts[i] : i \in 1..Len(cts)} = 1..trials)

\* C14 witness: main has left the loop with the results of the largest
\* number of trials, received in another order than the trials were started.
C14_Witness ==
    /\ mpc = "exit"
    /\ trials = MaxTrials
    /\ Len(cts) = trials
    /\ cts[1] # 1

\* C15: a round whose input block list is empty leaves the head and every
\* block's InHead flag as they were.
C15_EmptyRoundKeepsHead ==
    [][(pc = "loop" /\ round < roundNum /\ Len(blocks) = 0) =>
          /\ chainTracker'.head = chainTracker.head
          /\ Len(heap') = Len(heap)
          /\ \A p \in 1..Len(heap) : heap'[p].InHead = heap[p].InHead]_vars

\* C15 witness: setHead has run in a round that no block was published for,
\* with a head that was chosen in a round before.
C15_Witness ==
    /\ pc = "mine"
    /\ round >= 1
    /\ Len(blocks) = 0
    /\ chainTracker.head.WasHead

\* The k blocks of the list blks with the largest Seeds.
largestSeeds(blks, k) ==
    {b \in {blks[i] : i \in 1..Len(blks)} :
        Cardinality({i \in 1..Len(blks) : heap[blks[i]].Seed > heap[b].Seed}) < k}

\* C16: for a tipset of n blocks with pairwise distinct Seeds forksFromTipset
\* returns n forks; the i-th (counted from 0) holds exactly the n - i blocks
\* with the largest Seeds, in ascending order of Seed.
C16_ForksAreSeedSuffixes ==
    (/\ pc = "forked"
     /\ \A i, j \in 1..Len(blocks) : i # j => heap[blocks[i]].Seed # heap[blocks[j]].Seed) =>
        LET forks == atsforks[1]
            n == Len(blocks)
        IN  /\ Len(forks) = n
            /\ \A i \in 1..n :
                  /\ Len(forks[i].Blocks) = n - (i - 1)
                  /\ Members(forks[i]) = largestSeeds(blocks, n - (i - 1))
                  /\ \A a, b \in 1..Len(forks[i].Blocks) :
                        a < b => heap[forks[i].Blocks[a]].Seed < heap[forks[i].Blocks[b]].Seed

\* C16 witness: forksFromTipset has been applied to the largest tipset, of
\* blocks with distinct Seeds that were not collected in the order of Seeds.
C16_Witness ==
    /\ pc = "forked"
    /\ Len(blocks) = MaxForkBlocks
    /\ \A i, j \in 1..Len(blocks) : i # j => heap[blocks[i]].Seed # heap[blocks[j]].Seed
    /\ heap[blocks[1]].Seed > heap[blocks[2]].Seed
    /\ Len(atsforks[1]) = MaxForkBlocks

\* The tipsets that exist in the trial: the head, the forks offered to the
\* miners, the forks the miners hold, and the Parents of every block.
existingTipsets ==
    {chainTracker.head}
        \cup UNION {{atsforks[i][j] : j \in 1..Len(atsforks[i])} : i \in 1..Len(atsforks)}
        \cup UNION {heldForks(m) : m \in DOMAIN miners}
        \cup {heap[p].Parents : p \in {q \in 1..Len(heap) : ~IsNil(heap[q].Parents)}}

\* C17: the members of every tipset that exists have the same Height and the
\* same parent tipset Name.
C17_TipsetMembersAgree ==
    \A ts \in existingTipsets : \A a, b \in Members(ts) :
        /\ heap[a].Height = heap[b].Height
        /\ heap[a].Parents.Name = heap[b].Parents.Name

\* C17 witness: a round's input held blocks of two different parents, and a
\* block has been mined on a tipset of two members.
C17_Witness ==
    /\ \E i, j \in 1..Len(blocks) :
          heap[blocks[i]].Parents.Name # heap[blocks[j]].Parents.Name
    /\ \E p \in 1..Len(heap) : Len(heap[p].Parents.Blocks) >= 2

\* The number of non-null members of a tipset.
liveMembers(ts) == Cardinality({p \in Members(ts) : ~heap[p].Null})

RECURSIVE liveInAncestry(_)
\* The non-null blocks of a tipset and of all its ancestor tipsets, back to
\* the root genesis ancestor.
liveInAncestry(ts) ==
    IF IsNil(ts) THEN 0
    ELSE liveMembers(ts) + liveInAncestry(getParents(heap, ts))

RECURSIVE liveAboveGenesis(_)
\* The non-null blocks of a tipset and of its ancestor tipsets back to a
\* tipset of Height 0, whose own ancestors are not counted.
liveAboveGenesis(ts) ==
    IF getHeight(heap, ts) = 0 THEN liveMembers(ts)
    ELSE liveMembers(ts) + liveAboveGenesis(getParents(heap, ts))

C19_NullTipsetsAreSingletons ==
    \A ts \in existingTipsets :
        (\E p \in Members(ts) : heap[p].Null) => Len(ts.Blocks) = 1

\* C19 witness: a miner holds a null fork, a block has been mined on a null
\* tipset, and the miners are offered a tipset of two members.
C19_Witness ==
    /\ pc = "mine"
    /\ \E m \in DOMAIN miners : \E ts \in heldForks(m) : heap[ts.Blocks[1]].Null
    /\ \E p \in 1..Len(heap) :
          ~IsNil(heap[p].Parents) /\ heap[heap[p].Parents.Blocks[1]].Null
    /\ \E i \in 1..Len(atsforks) : Len(atsforks[i][1].Blocks) >= 2

\* The scenario of one round, one miner and lookback 1, after round 0.
scenarioDone == lbp = 1 /\ totalMiners = 1 /\ roundNum = 1 /\ round >= 1

C21_BadConfigRejected ==
    (trials <= 0 \/ roundNum <= 0) =>
        /\ started = {}
        /\ Len(c) = 0
        /\ Len(cts) = 0
        /\ mpc \in {"check", "panic"}

\* C22: NewTipset returns a tipset only for a list that is not empty and
\* whose blocks all have the same Height and the same parent tipset.
C22_NewTipsetRejectsBadInput ==
    pc = "built" =>
        /\ Len(blocks) > 0
        /\ \A i, j \in 1..Len(blocks) :
              /\ heap[blocks[i]].Height = heap[blocks[j]].Height
              /\ heap[blocks[i]].Parents.Name = heap[blocks[j]].Parents.Name

\* The call of Mine by the miner whose turn it is.
mineCall == pc = "mine" /\ mIdx < totalMiners /\ mIdx' = mIdx + 1

\* The blocks generated in the step: the candidates of the call of Mine.
candidates == (Len(heap) + 1)..Len(heap')

\* C23: when no candidate of a call of Mine wins, each fork the miner held
\* after the merge is replaced by one tipset of the single null block mined
\* on it, named by that block's Nonce and owned by the miner, and
\* PrivateForks has as many entries as before.
C23_NullBlocksReplaceForks ==
    [][(mineCall /\ \A p \in candidates : heap'[p].Null) =>
          LET before == heldForks(mIdx)
              after == miners'[mIdx].PrivateForks
          IN  /\ Cardinality(after) = Cardinality(before)
              /\ \A ts \in after :
                    /\ Len(ts.Blocks) = 1
                    /\ ts.Blocks[1] \in candidates
                    /\ heap'[ts.Blocks[1]].Null
                    /\ heap'[ts.Blocks[1]].Owner = mIdx
                    /\ ts.Name = <<heap'[ts.Blocks[1]].Nonce>>
                    /\ heap'[ts.Blocks[1]].Parents \in before
              /\ \A f \in before :
                    Cardinality({ts \in after : heap'[ts.Blocks[1]].Parents = f}) = 1]_vars

\* C23 witness: the miner that has just mined lost on three forks or more,
\* one of them a null fork of its own, and holds the null blocks mined on them.
C23_Witness ==
    /\ pc = "mine"
    /\ mIdx >= 1
    /\ Cardinality(miners[mIdx - 1].PrivateForks) >= 3
    /\ \A ts \in miners[mIdx - 1].PrivateForks : heap[ts.Blocks[1]].Height = round + 1
    /\ \E ts \in miners[mIdx - 1].PrivateForks :
          heap[heap[ts.Blocks[1]].Parents.Blocks[1]].Null

\* C24: a call of Mine returns a block if and only if one of its candidates
\* is not null; then PrivateForks is empty after the call, and otherwise it
\* is not.
C24_ForksWipedIffWon ==
    [][mineCall =>
          LET won == \E p \in candidates : ~heap'[p].Null
          IN  /\ won <=> Len(newBlocks') = Len(newBlocks) + 1
              /\ ~won <=> newBlocks' = newBlocks
              /\ won <=> miners'[mIdx].PrivateForks = {}]_vars

\* C24 witness: the miner that has just mined returned a block and holds no
\* fork, and in that call it generated another winning candidate and a null
\* candidate as well.
C24_Witness ==
    /\ pc = "mine"
    /\ mIdx >= 1
    /\ miners[mIdx - 1].PrivateForks = {}
    /\ Len(newBlocks) >= 1
    /\ heap[newBlocks[Len(newBlocks)]].Owner = mIdx - 1
    /\ \E p, q \in 1..Len(heap) :
          /\ p # newBlocks[Len(newBlocks)]
          /\ heap[p].Owner = mIdx - 1 /\ heap[p].Height = round + 1 /\ ~heap[p].Null
          /\ heap[q].Owner = mIdx - 1 /\ heap[q].Height = round + 1 /\ heap[q].Null

\* C25: the block a call of Mine returns is one of the call's non-null
\* candidates, and no non-null candidate of the call has a greater
\* ParentWeight, in whatever order the forks were visited.
C25_BestBlockMaxParentWeight ==
    [][(mineCall /\ Len(newBlocks') = Len(newBlocks) + 1) =>
          LET best == newBlocks'[Len(newBlocks')]
          IN  /\ best \in candidates
              /\ ~heap'[best].Null
              /\ \A p \in candidates :
                    ~heap'[p].Null => heap'[p].ParentWeight <= heap'[best].ParentWeight]_vars

\* C25 witness: the miner that has just mined returned a block, and
\* generated after it a winning candidate of smaller ParentWeight.
C25_Witness ==
    /\ pc = "mine"
    /\ mIdx >= 1
    /\ Len(newBlocks) >= 1
    /\ heap[newBlocks[Len(newBlocks)]].Owner = mIdx - 1
    /\ \E p \in 1..Len(heap) :
          /\ p > newBlocks[Len(newBlocks)]
          /\ heap[p].Owner = mIdx - 1 /\ heap[p].Height = round + 1 /\ ~heap[p].Null
          /\ heap[p].ParentWeight < heap[newBlocks[Len(newBlocks)]].ParentWeight

\* The blocks generateBlock has made: all but the genesis blocks.
minedBlocks == {p \in 1..Len(heap) : heap[p].Owner # -1}

\* The Name of the tipset whose MinTicket is the input of the election proof
\* of block p, and of the tipset whose MinTicket is the input of its Seed.
proofInput(p) == lookbackTipset(heap, heap[p].Parents, lbp).Name
seedInput(p) == lookbackTipset(heap, heap[p].Parents, 1).Name

withoutNonce(b) == [b EXCEPT !.Nonce = 0]

\* The outcome of a round of two miners in which miner a mines before miner
\* b: the blocks published and each miner's PrivateForks, without the ids of
\* the blocks made in the round.  v holds the generator's values, oa and ob
\* are the orders in which the two calls of Mine visit the forks.
roundOutcome(a, b, v, oa, ob) ==
    LET ra == MineResult(heap, uniqueID, chainTracker.allBlocks, v, miners[a],
                         atsforks, oa, lbp)
        rb == MineResult(ra.heap, ra.uniqueID, ra.allBlocks, v, miners[b],
                         atsforks, ob, lbp)
        forksOf(r) == {[size |-> Len(ts.Blocks),
                        block |-> withoutNonce(rb.heap[ts.Blocks[1]])] :
                          ts \in r.PrivateForks}
    IN  [published |-> {withoutNonce(rb.heap[x]) : x \in {ra.bestBlock, rb.bestBlock} \ {0}},
         forks |-> [m \in {a, b} |-> IF m = a THEN forksOf(ra) ELSE forksOf(rb)]]

\* C27: at the start of the miners' turns of a round of two miners, letting
\* miner 1 mine before miner 0 gives the same published blocks and the same
\* PrivateForks, but for the new ids, as letting miner 0 mine first.
C27_MinerOrderIndependent ==
    (pc = "mine" /\ mIdx = 0 /\ totalMiners = 2) =>
        \A f \in [(mineSeeds(0) \cup mineSeeds(1)) \ DOMAIN vrf -> 0..(bigOlNum - 1)] :
        \A o0 \in iterationOrders(heldForks(0)) :
        \A o1 \in iterationOrders(ConsiderAllForks(miners[1].PrivateForks, atsforks)) :
            LET v == [k \in (DOMAIN vrf) \cup (DOMAIN f) |->
                         IF k \in DOMAIN vrf THEN vrf[k] ELSE f[k]]
            IN  roundOutcome(0, 1, v, o0, o1) = roundOutcome(1, 0, v, o1, o0)

\* C27 witness: a round of two miners starts in which miner 1 holds a null
\* fork of its own besides the fork of the block miner 0 published.
C27_Witness ==
    /\ pc = "mine"
    /\ mIdx = 0
    /\ totalMiners = 2
    /\ round >= 2
    /\ Len(blocks) = 1
    /\ heap[blocks[1]].Owner = 0
    /\ \E ts \in miners[1].PrivateForks : heap[ts.Blocks[1]].Null
    /\ Cardinality(ConsiderAllForks(miners[1].PrivateForks, atsforks)) >= 2

RECURSIVE sortedIds(_)
\* The Nonces of a set of blocks in ascending order.
sortedIds(ps) ==
    IF ps = {} THEN <<>>
    ELSE LET least == CHOOSE p \in ps : \A q \in ps : heap[p].Nonce <= heap[q].Nonce
         IN  <<heap[least].Nonce>> \o sortedIds(ps \ {least})

\* C28: the Name of the tipset NewTipset returns is the Nonces of the blocks
\* in ascending order, and NewTipset gives the same Name for the same blocks
\* passed in any other order.
C28_NameCanonical ==
    pc = "built" =>
        /\ atsforks[1][1].Name = sortedIds({blocks[i] : i \in 1..Len(blocks)})
        /\ \A o \in iterationOrders({blocks[i] : i \in 1..Len(blocks)}) :
              NewTipset(heap, o).Name = atsforks[1][1].Name

\* C29: no send of a result waits or panics: while a started trial has not
\* sent, the channel is open and has room, and the channel is closed only
\* when every trial has sent.
C29_SendNeverBlocksOrPanics ==
    /\ \A t \in Trials : tpc[t] # "panic"
    /\ \A t \in Trials :
          tpc[t] \notin {"idle", "done"} => ~closed /\ Len(c) < chanCap(trials)
    /\ closed => \A t \in 1..trials : tpc[t] = "done"

\* C29 witness: every trial of the largest number of trials has sent its
\* result before main has received any.
C29_Witness ==
    /\ trials = MaxTrials
    /\ Len(c) = MaxTrials
    /\ Len(cts) = 0
    /\ \A t \in Trials : tpc[t] = "done"

\* C30: the head holds every published block that has the Height and the
\* parent tipset of its members.
C30_HeadIsMaximal ==
    \A p \in Members(chainTracker.head) : groupOf(p) \subseteq Members(chainTracker.head)

\* C30 witness: the head is a tipset of two of this round's input blocks,
\* and setHead was also offered the tipset of the second of them alone.
C30_Witness ==
    /\ pc = "mine"
    /\ Len(chainTracker.head.Blocks) = 2
    /\ \A p \in Members(chainTracker.head) : \E i \in 1..Len(blocks) : blocks[i] = p
    /\ \E i \in 1..Len(roundTipsets) :
          /\ Len(roundTipsets[i].Blocks) = 1
          /\ Members(roundTipsets[i]) \subseteq Members(chainTracker.head)
          /\ roundTipsets[i].MinTicket <= chainTracker.head.MinTicket

RECURSIVE chainMembers(_)
\* The members of a tipset and of all its ancestor tipsets.
chainMembers(ts) ==
    IF IsNil(ts) THEN {}
    ELSE Members(ts) \cup chainMembers(getParents(heap, ts))

\* C31: every block flagged InHead is a member of the head or of one of the
\* head's ancestor tipsets.
C31_InHeadOnHeadChain ==
    \A p \in 1..Len(heap) : heap[p].InHead => p \in chainMembers(chainTracker.head)

\* C31, amended: the InHead flag is set on the members of a tipset when it
\* becomes the head and is never cleared: every member of the head is
\* flagged, a flagged block stays flagged, and a block becomes flagged only
\* in a step that makes a tipset holding it the head.
C31_InHeadOnceInHead ==
    [][/\ \A p \in Members(chainTracker'.head) : heap'[p].InHead
       /\ \A p \in 1..Len(heap) : heap[p].InHead => heap'[p].InHead
       /\ \A p \in 1..Len(heap') :
             (heap'[p].InHead /\ ~(p <= Len(heap) /\ heap[p].InHead)) =>
                 /\ p \in Members(chainTracker'.head)
                 /\ chainTracker'.head # chainTracker.head]_vars

\* C31 witness: the head has moved to a tipset on another fork: a block
\* flagged InHead is not on the head's chain, and the head's parent tipset
\* holds a block that is not flagged.
C31_Witness ==
    /\ chainTracker.head.WasHead
    /\ \E p \in 1..Len(heap) :
          /\ heap[p].InHead
          /\ p \notin chainMembers(chainTracker.head)
          /\ heap[p].Height < getHeight(heap, chainTracker.head)
    /\ \E q \in chainMembers(chainTracker.head) : ~heap[q].Null /\ ~heap[q].InHead

\* C32: runTests is never left blocked in wgSims.Wait() when every
\* goroutine it launched has finished.
C32_WaitReturns ==
    ~(/\ rpc = "wait"
      /\ \A g \in 1..pairs : gpc[g] = "done"
      /\ wgSims # 0)

RECURSIVE liveParentsPanics(_, _, _)
\* Whether the loop of liveParents started at parents dereferences a nil
\* tipset, or is still on a null tipset after n steps.
liveParentsPanics(h, parents, n) ==
    IF IsNil(parents) THEN TRUE
    ELSE IF ~h[parents.Blocks[1]].Null THEN FALSE
    ELSE IF n = 0 THEN TRUE
    ELSE liveParentsPanics(h, h[parents.Blocks[1]].Parents, n - 1)

\* The blocks the miners have published: those of the round and those the
\* chain tracker has filed by height.
publishedBlocks ==
    {blocks[i] : i \in 1..Len(blocks)}
        \cup UNION {{chainTracker.liveBlocksByHeight[hgt][i] :
                        i \in 1..Len(chainTracker.liveBlocksByHeight[hgt])} :
                     hgt \in DOMAIN chainTracker.liveBlocksByHeight}

\* C33: for every block created in a trial, the walk of liveParents ends
\* after at most as many steps as there are blocks, never on an absent
\* parent, on a tipset of non-null blocks that are genesis blocks or were
\* published.
C33_LiveParentsTerminates ==
    \A p \in minedBlocks :
        /\ ~liveParentsPanics(heap, heap[p].Parents, Len(heap))
        /\ LET live == liveParents(heap, p)
           IN  /\ ~IsNil(live)
               /\ \A q \in Members(live) :
                     /\ ~heap[q].Null
                     /\ heap[q].Owner = -1 \/ q \in publishedBlocks

\* A winning block mined on a private chain of two null tipsets, whose
\* liveParents is the published or genesis tipset under them.
C33_Witness ==
    \E p \in minedBlocks :
        /\ ~heap[p].Null
        /\ heap[heap[p].Parents.Blocks[1]].Null
        /\ heap[getParents(heap, heap[p].Parents).Blocks[1]].Null
        /\ ~liveParentsPanics(heap, heap[p].Parents, Len(heap))
        /\ liveParents(heap, p).Weight = heap[p].ParentWeight

====
